---- MODULE Spec2Model ----
(***************************************************************************)
(* ipbin: compact binary codec for IP prefixes, text parser, prefix merge  *)
(* and the command-line pipeline built on them.                            *)
(*                                                                         *)
(* An address (netip.Addr) is the sequence of its bytes, most significant  *)
(* first: 4 bytes for IPv4, 16 bytes for IPv6, the empty sequence for the  *)
(* zero Addr.  A prefix (netip.Prefix) is [addr, bits]; bits = -1 is an    *)
(* invalid prefix.  A range (netipx.IPRange) is [from, to].                *)
(***************************************************************************)
EXTENDS Integers, Sequences, FiniteSets, TLC

VARIABLES
    cpc, cp, enc, cbuf, dec,            \* codec calls
    spc, src, tail, data, prefixes, lastN, rerr,  \* readPrefixes, binary input
    mpc, input, idx, builderIn, builderErrs, ipset, merr,  \* MergePrefixes
    ppc, lines, li, nets, mark, perr,    \* ParseIPSubnets
    pc, opts, exitCode, outFile, fileData, readOk, mergeOk, failed   \* main

codecVars == <<cpc, cp, enc, cbuf, dec>>
streamVars == <<spc, src, tail, data, prefixes, lastN, rerr>>
mergeVars == <<mpc, input, idx, builderIn, builderErrs, ipset, merr>>
parseVars == <<ppc, lines, li, nets, mark, perr>>
vars == <<cpc, cp, enc, cbuf, dec, spc, src, tail, data, prefixes, lastN, rerr,
          mpc, input, idx, builderIn, builderErrs, ipset, merr,
          ppc, lines, li, nets, mark, perr,
          pc, opts, exitCode, outFile, fileData, readOk, mergeOk, failed>>
mainVars == <<pc, opts, exitCode, outFile, fileData, readOk, mergeOk, failed>>

----------------------------------------------------------------------------
(* Byte and bit helpers (Go slices, copy, netip.Addr)                      *)

Zeros(n) == [i \in 1..n |-> 0]

Ones(n) == [i \in 1..n |-> 255]

Take(s, n) == SubSeq(s, 1, n)

Drop(s, n) == SubSeq(s, n + 1, Len(s))

Min(a, b) == IF a < b THEN a ELSE b

Pow2(n) == 2 ^ n

\* copy(dst, src) into a zeroed array of dstLen bytes: min(len) bytes copied.
Copy(dstLen, s) == [i \in 1..dstLen |-> IF i <= Len(s) THEN s[i] ELSE 0]

\* netip.Addr.BitLen: 32, 128, or 0 for the zero Addr.
BitLen(a) == 8 * Len(a)

Is4(a) == Len(a) = 4

\* netip.Prefix{} (the zero, invalid prefix).
NoPrefix == [addr |-> <<>>, bits |-> -1]

\* netip.PrefixFrom: host bits are NOT masked off; out-of-range bits give an
\* invalid prefix.
PrefixFrom(ip, bits) ==
    [addr |-> ip,
     bits |-> IF Len(ip) > 0 /\ bits >= 0 /\ bits <= BitLen(ip) THEN bits ELSE -1]

IsValid(p) == p.bits >= 0 /\ Len(p.addr) > 0

\* netip.Prefix.Masked: the address with every bit beyond bits cleared.
MaskedAddr(a, bits) ==
    [j \in 1..Len(a) |->
        IF 8 * j <= bits THEN a[j]
        ELSE IF 8 * (j - 1) >= bits THEN 0
        ELSE a[j] - (a[j] % Pow2(8 * j - bits))]

Masked(p) == IF IsValid(p) THEN [addr |-> MaskedAddr(p.addr, p.bits), bits |-> p.bits]
             ELSE NoPrefix

\* Canonical form: host bits cleared.
IsCanonical(p) == IsValid(p) /\ MaskedAddr(p.addr, p.bits) = p.addr

----------------------------------------------------------------------------
(* Prefix codec: ipbin.go                                                  *)

MaxV4Header == 32

MaxV6Header == 161

V6HeaderBase == 33

EncodedSize == 17

\* Mutant: the payload length rounds down instead of up.
EncodePrefixFloor(p) ==
    IF ~IsValid(p) THEN [b |-> Zeros(EncodedSize), n |-> 0, err |-> "invalid prefix"]
    ELSE LET bits == p.bits
             prefixBytesLen == bits \div 8
             hdr == IF Is4(p.addr) THEN bits ELSE bits + V6HeaderBase
         IN [b |-> <<hdr>> \o Copy(EncodedSize - 1, Take(p.addr, prefixBytesLen)),
             n |-> prefixBytesLen + 1,
             err |-> "nil"]

\* EncodePrefix(p) -> (b [17]byte, n int, err error)
EncodePrefix(p) ==
    IF ~IsValid(p) THEN [b |-> Zeros(EncodedSize), n |-> 0, err |-> "invalid prefix"]
    ELSE LET bits == p.bits
             prefixBytesLen == (bits + 7) \div 8
             hdr == IF Is4(p.addr) THEN bits ELSE bits + V6HeaderBase
         IN [b |-> <<hdr>> \o Copy(EncodedSize - 1, Take(p.addr, prefixBytesLen)),
             n |-> prefixBytesLen + 1,
             err |-> "nil"]

\* The bytes WriteEncoded / AppendEncoded emit: b[:n].
EncodedBytes(p) == LET e == EncodePrefix(p) IN Take(e.b, e.n)

\* Mutant: the truncation check is off by one (accepts one byte too few).
ReadPrefixFromBytesShort(buf) ==
    IF Len(buf) = 0 THEN [prefix |-> NoPrefix, n |-> 0, err |-> "EOF"]
    ELSE LET hdr == buf[1] IN
         IF hdr <= MaxV4Header THEN
             LET prefixLen == hdr
                 numBytes == 1 + (prefixLen + 7) \div 8
             IN IF Len(buf) + 1 < numBytes
                THEN [prefix |-> NoPrefix, n |-> 0, err |-> "ErrUnexpectedEOF"]
                ELSE [prefix |-> PrefixFrom(Copy(4, SubSeq(buf, 2, Min(numBytes, Len(buf)))), prefixLen),
                      n |-> numBytes, err |-> "nil"]
         ELSE IF hdr <= MaxV6Header THEN
             LET prefixLen == hdr - V6HeaderBase
                 numBytes == 1 + (prefixLen + 7) \div 8
             IN IF Len(buf) + 1 < numBytes
                THEN [prefix |-> NoPrefix, n |-> 0, err |-> "ErrUnexpectedEOF"]
                ELSE [prefix |-> PrefixFrom(Copy(16, SubSeq(buf, 2, Min(numBytes, Len(buf)))), prefixLen),
                      n |-> numBytes, err |-> "nil"]
         ELSE [prefix |-> NoPrefix, n |-> 0, err |-> "invalid prefix header byte"]

\* ReadPrefixFromBytes(buf) -> (netip.Prefix, int, error)
ReadPrefixFromBytes(buf) ==
    IF Len(buf) = 0 THEN [prefix |-> NoPrefix, n |-> 0, err |-> "EOF"]
    ELSE LET hdr == buf[1] IN
         IF hdr <= MaxV4Header THEN
             LET prefixLen == hdr
                 numBytes == 1 + (prefixLen + 7) \div 8
             IN IF Len(buf) < numBytes
                THEN [prefix |-> NoPrefix, n |-> 0, err |-> "ErrUnexpectedEOF"]
                ELSE [prefix |-> PrefixFrom(Copy(4, SubSeq(buf, 2, numBytes)), prefixLen),
                      n |-> numBytes, err |-> "nil"]
         ELSE IF hdr <= MaxV6Header THEN
             LET prefixLen == hdr - V6HeaderBase
                 numBytes == 1 + (prefixLen + 7) \div 8
             IN IF Len(buf) < numBytes
                THEN [prefix |-> NoPrefix, n |-> 0, err |-> "ErrUnexpectedEOF"]
                ELSE [prefix |-> PrefixFrom(Copy(16, SubSeq(buf, 2, numBytes)), prefixLen),
                      n |-> numBytes, err |-> "nil"]
         ELSE [prefix |-> NoPrefix, n |-> 0, err |-> "invalid prefix header byte"]

----------------------------------------------------------------------------
(* Ranges and sets: go4.org/netipx as used by parser.go                    *)

\* netip.Addr.Less: IPv4 sorts before IPv6, then by value.
AddrLess(a, b) ==
    IF Len(a) # Len(b) THEN Len(a) < Len(b)
    ELSE \E i \in 1..Len(a) : a[i] < b[i] /\ \A j \in 1..(i - 1) : a[j] = b[j]

\* netip.Addr.Next: the following address, or the zero Addr past the last
\* address of the family.
AddrNext(a) ==
    IF \A i \in 1..Len(a) : a[i] = 255 THEN <<>>
    ELSE LET k == CHOOSE i \in 1..Len(a) : a[i] < 255 /\ \A j \in (i + 1)..Len(a) : a[j] = 255
         IN [j \in 1..Len(a) |-> IF j < k THEN a[j] ELSE IF j = k THEN a[j] + 1 ELSE 0]

\* The address with every bit from position bits on set to one.
SetFromAddr(a, bits) ==
    [j \in 1..Len(a) |->
        IF 8 * j <= bits THEN a[j]
        ELSE IF 8 * (j - 1) >= bits THEN 255
        ELSE a[j] - (a[j] % Pow2(8 * j - bits)) + Pow2(8 * j - bits) - 1]

\* netipx.PrefixLastIP
PrefixLastIP(p) == IF ~IsValid(p) THEN <<>> ELSE SetFromAddr(p.addr, p.bits)

NoRange == [from |-> <<>>, to |-> <<>>]

IPRangeFrom(a, b) == [from |-> a, to |-> b]

\* netipx.IPRange.IsValid: same family, from <= to.
RangeIsValid(r) ==
    /\ Len(r.from) > 0
    /\ Len(r.from) = Len(r.to)
    /\ ~AddrLess(r.to, r.from)

\* netipx.RangeOfPrefix: the prefix is masked first.
RangeOfPrefix(p) ==
    LET m == Masked(p)
    IN IF ~IsValid(m) THEN NoRange ELSE IPRangeFrom(m.addr, PrefixLastIP(m))

\* netip.Addr.As16: an IPv4 address as ::ffff:a.b.c.d.
As16(a) == IF Is4(a) THEN Zeros(10) \o <<255, 255>> \o a ELSE a

\* Bit i of a 128-bit value, 0 the most significant.
BitAt(u, i) == (u[(i \div 8) + 1] \div Pow2(7 - (i % 8))) % 2

\* uint128.commonPrefixLen: the number of leading bits a and b share.
CommonPrefixLen(a, b) ==
    IF a = b THEN 128
    ELSE LET j == CHOOSE k \in 1..16 : a[k] # b[k] /\ \A m \in 1..(k - 1) : a[m] = b[m]
             t == CHOOSE c \in 0..7 :
                    /\ a[j] \div Pow2(8 - c) = b[j] \div Pow2(8 - c)
                    /\ a[j] \div Pow2(7 - c) # b[j] \div Pow2(7 - c)
         IN 8 * (j - 1) + t

\* comparePrefixes: whether a ends in all zeros and b in all ones after
\* their common bits.
ComparePrefixesOk(a, b, common) ==
    \/ common = 128
    \/ /\ MaskedAddr(a, common) = a
       /\ SetFromAddr(b, common) = b

\* IPRange.prefixFrom128AndBits
PrefixFrom128AndBits(is4, a, bits) ==
    IF is4 THEN PrefixFrom(SubSeq(a, 13, 16), bits - 96) ELSE PrefixFrom(a, bits)

RECURSIVE RangePrefixes128(_, _, _)
\* appendRangePrefixes, as the list it appends: a whole block is emitted,
\* anything else is split at the first differing bit and both halves are
\* done recursively, low half first.
RangePrefixes128(is4, a, b) ==
    LET common == CommonPrefixLen(a, b)
    IN IF ComparePrefixesOk(a, b, common)
       THEN <<PrefixFrom128AndBits(is4, a, common)>>
       ELSE RangePrefixes128(is4, a, SetFromAddr(a, common + 1))
            \o RangePrefixes128(is4, MaskedAddr(b, common + 1), b)

AppendRangePrefixes(dst, is4, a, b) == dst \o RangePrefixes128(is4, a, b)

\* netipx.IPRange.AppendPrefixes: an invalid range yields nil, whatever dst
\* held.
AppendPrefixes(r, dst) ==
    IF ~RangeIsValid(r) THEN <<>>
    ELSE AppendRangePrefixes(dst, Is4(r.from), As16(r.from), As16(r.to))

\* netipx.IPRange.Prefixes
RangePrefixes(r) == AppendPrefixes(r, <<>>)

RECURSIVE InsertByFrom(_, _)
\* One pass of the insertion sort behind sort.Slice on short slices: r moves
\* left past every element whose from is greater.
InsertByFrom(sorted, r) ==
    IF Len(sorted) > 0 /\ AddrLess(r.from, sorted[Len(sorted)].from)
    THEN Append(InsertByFrom(Take(sorted, Len(sorted) - 1), r), sorted[Len(sorted)])
    ELSE Append(sorted, r)

RECURSIVE SortByFrom(_)
SortByFrom(rr) ==
    IF Len(rr) = 0 THEN <<>>
    ELSE InsertByFrom(SortByFrom(Take(rr, Len(rr) - 1)), rr[Len(rr)])

RECURSIVE MergeSweepNoTouch(_, _)
\* Mutant: touching ranges are not merged.
MergeSweepNoTouch(out, rest) ==
    IF Len(rest) = 0 THEN out
    ELSE LET r == Head(rest)
             n == Len(out)
             prev == out[n]
         IN IF AddrLess(prev.to, r.from)
                THEN MergeSweepNoTouch(Append(out, r), Tail(rest))
            ELSE IF AddrLess(prev.to, r.to)
                THEN MergeSweepNoTouch([out EXCEPT ![n].to = r.to], Tail(rest))
            ELSE MergeSweepNoTouch(out, Tail(rest))

RECURSIVE MergeSweep(_, _)
\* The sweep of mergeIPRanges over the sorted ranges still to do.
MergeSweep(out, rest) ==
    IF Len(rest) = 0 THEN out
    ELSE LET r == Head(rest)
             n == Len(out)
             prev == out[n]
         IN IF AddrNext(prev.to) = r.from
                THEN MergeSweep([out EXCEPT ![n].to = r.to], Tail(rest))
            ELSE IF AddrLess(prev.to, r.from)
                THEN MergeSweep(Append(out, r), Tail(rest))
            ELSE IF AddrLess(prev.to, r.to)
                THEN MergeSweep([out EXCEPT ![n].to = r.to], Tail(rest))
            ELSE MergeSweep(out, Tail(rest))

\* Mutant: the ranges are swept in insertion order, without sorting.
MergeIPRangesUnsorted(rr) ==
    IF Len(rr) <= 1 THEN rr
    ELSE MergeSweep(<<rr[1]>>, Tail(rr))

\* mergeIPRanges: sort by from, then merge touching and overlapping ranges.
MergeIPRanges(rr) ==
    IF Len(rr) <= 1 THEN rr
    ELSE LET sorted == SortByFrom(rr)
         IN MergeSweep(<<sorted[1]>>, Tail(sorted))

RECURSIVE ConcatPrefixes(_)
\* netipx.IPSet.Prefixes: the decomposition of each range, in range order.
ConcatPrefixes(rr) ==
    IF Len(rr) = 0 THEN <<>> ELSE RangePrefixes(Head(rr)) \o ConcatPrefixes(Tail(rr))

----------------------------------------------------------------------------
(* Inputs of the codec                                                     *)

\* Address patterns: the addresses of ipbin_test.go and the all-ones
\* addresses, whose masked forms exercise every prefix length.
Addr4Patterns ==
    { <<1, 2, 3, 1>>, <<1, 5, 5, 5>>, <<255, 255, 255, 255>> }

Addr6Patterns ==
    { <<32, 3, 0, 193, 199, 46, 97, 0, 249, 33, 149, 166, 239, 57, 30, 199>>,
      <<32, 1, 13, 184, 171, 205, 18, 52, 0, 0, 0, 0, 0, 0, 0, 0>>,
      Ones(16) }

\* Every canonical prefix obtained from a pattern: all lengths 0..32, 0..128.
CanonicalPool ==
    { Masked(PrefixFrom(a, l)) : a \in Addr4Patterns, l \in 0..32 }
    \cup { Masked(PrefixFrom(a, l)) : a \in Addr6Patterns, l \in 0..128 }

\* Valid prefixes with host bits set, and the invalid prefix.
NonCanonicalPool ==
    { PrefixFrom(<<1, 2, 3, 1>>, 31), PrefixFrom(<<1, 2, 3, 1>>, 24),
      PrefixFrom(<<1, 2, 3, 1>>, 8), PrefixFrom(Ones(16), 64) }

EncodeInputs == CanonicalPool \cup NonCanonicalPool \cup {NoPrefix, PrefixFrom(<<1, 2, 3, 4>>, 33)}

\* Payload patterns for raw buffers.
PayloadPatterns ==
    { <<1, 2, 3, 1>> \o Zeros(14), Ones(18), Zeros(18) }

\* The longest run of bytes after the header in a raw decode buffer.
MaxExtra == 17

HeaderBytes == 0..255

BufPool ==
    {<<>>} \cup { <<h>> \o Take(pat, k) : h \in HeaderBytes, k \in 0..MaxExtra, pat \in PayloadPatterns }

----------------------------------------------------------------------------
(* Codec specification: one EncodePrefix call followed by a decode of its  *)
(* output, or one ReadPrefixFromBytes call on a raw buffer.                *)

NoEnc == [b |-> Zeros(EncodedSize), n |-> 0, err |-> "none"]

NoDec == [prefix |-> NoPrefix, n |-> 0, err |-> "none"]

CodecIdle ==
    /\ cpc = "idle"
    /\ cp = NoPrefix
    /\ enc = NoEnc
    /\ cbuf = <<>>
    /\ dec = NoDec

StreamIdle ==
    /\ spc = "idle"
    /\ src = <<>>
    /\ tail = <<>>
    /\ data = <<>>
    /\ prefixes = <<>>
    /\ lastN = 0
    /\ rerr = "nil"

MergeIdle ==
    /\ mpc = "idle"
    /\ input = <<>>
    /\ idx = 0
    /\ builderIn = <<>>
    /\ builderErrs = 0
    /\ ipset = <<>>
    /\ merr = "nil"

ParseIdle ==
    /\ ppc = "idle"
    /\ lines = <<>>
    /\ li = 0
    /\ nets = <<>>
    /\ mark = 0
    /\ perr = "nil"

NoOpts ==
    [showHelp |-> FALSE, args |-> <<>>, inputFilepath |-> "", binIn |-> FALSE,
     gzipIn |-> FALSE, binOut |-> FALSE, gzipOut |-> FALSE, formatOut |-> 1]

MainIdle ==
    /\ pc = "idle"
    /\ opts = NoOpts
    /\ exitCode = -1
    /\ outFile = "absent"
    /\ fileData = <<>>
    /\ readOk = FALSE
    /\ mergeOk = FALSE
    /\ failed = {}

CodecInit == CodecIdle /\ StreamIdle /\ MergeIdle /\ ParseIdle /\ MainIdle

Encode(p) ==
    /\ cpc = "idle"
    /\ cp' = p
    /\ enc' = EncodePrefix(p)
    /\ cpc' = "encoded"
    /\ UNCHANGED <<cbuf, dec>>
    /\ UNCHANGED <<streamVars, mergeVars, parseVars, mainVars>>

DecodeEncoded ==
    /\ cpc = "encoded"
    /\ enc.err = "nil"
    /\ cbuf' = Take(enc.b, enc.n)
    /\ dec' = ReadPrefixFromBytes(Take(enc.b, enc.n))
    /\ cpc' = "roundtrip"
    /\ UNCHANGED <<cp, enc>>
    /\ UNCHANGED <<streamVars, mergeVars, parseVars, mainVars>>

Decode(buf) ==
    /\ cpc = "idle"
    /\ cbuf' = buf
    /\ dec' = ReadPrefixFromBytes(buf)
    /\ cpc' = "decoded"
    /\ UNCHANGED <<cp, enc>>
    /\ UNCHANGED <<streamVars, mergeVars, parseVars, mainVars>>

CodecNext ==
    \/ \E p \in EncodeInputs : Encode(p)
    \/ DecodeEncoded
    \/ \E buf \in BufPool : Decode(buf)

SpecCodec == CodecInit /\ [][CodecNext]_vars

\* ceil(l / 8), stated without the code's (l + 7) / 8.
CeilDiv8(l) == CHOOSE k \in 0..17 : 8 * k >= l /\ 8 * (k - 1) < l

\* C1: codec round-trip. For every valid prefix with host bits cleared,
\* EncodePrefix succeeds with n = 1 + ceil(bits/8), and ReadPrefixFromBytes
\* on exactly those n bytes returns the same prefix, n consumed, no error.
C1_RoundTrip ==
    /\ (cpc \in {"encoded", "roundtrip"} /\ IsCanonical(cp)) =>
            /\ enc.err = "nil"
            /\ enc.n = 1 + CeilDiv8(cp.bits)
    /\ (cpc = "roundtrip" /\ IsCanonical(cp)) =>
            /\ Len(cbuf) = 1 + CeilDiv8(cp.bits)
            /\ dec = [prefix |-> cp, n |-> enc.n, err |-> "nil"]

\* Scenario 1 of the round trip: 1.2.3.0/31 <-> [31, 1, 2, 3, 0], and an
\* IPv6 /64 in 9 bytes.
C1_Witness ==
    /\ cpc = "roundtrip"
    /\ cp = [addr |-> <<1, 2, 3, 0>>, bits |-> 31]
    /\ cbuf = <<31, 1, 2, 3, 0>>
    /\ dec.prefix = cp /\ dec.n = 5

\* The payload length a header declares: ceil(length / 8).
DeclaredPayload(hdr) == CeilDiv8(IF hdr <= 32 THEN hdr ELSE hdr - 33)

\* C2: every failing ReadPrefixFromBytes call consumes zero bytes; empty
\* buffer -> EOF; header > 161 -> invalid header; header in 0..161 with too
\* few payload bytes -> ErrUnexpectedEOF; no other input fails.
C2_Failures ==
    cpc = "decoded" =>
        /\ (dec.err # "nil" => dec.n = 0 /\ dec.prefix = NoPrefix)
        /\ IF Len(cbuf) = 0 THEN dec.err = "EOF"
           ELSE IF cbuf[1] > 161 THEN dec.err = "invalid prefix header byte"
           ELSE IF Len(cbuf) - 1 < DeclaredPayload(cbuf[1]) THEN dec.err = "ErrUnexpectedEOF"
           ELSE dec.err = "nil" /\ dec.n = 1 + DeclaredPayload(cbuf[1])

\* Scenario 5: header declares 3 payload bytes, only 1 remains.
C2_Witness ==
    /\ cpc = "decoded"
    /\ cbuf = <<24, 1>>
    /\ dec.err = "ErrUnexpectedEOF"
    /\ dec.n = 0

\* C10: every prefix ReadPrefixFromBytes returns without error has all
\* address bits beyond the prefix length zero.
C10_DecodedCanonical ==
    (cpc \in {"decoded", "roundtrip"} /\ dec.err = "nil") => IsCanonical(dec.prefix)

----------------------------------------------------------------------------
(* readPrefixes, binary branch: decode a whole buffer unit by unit         *)

RECURSIVE EncodeAll(_)
\* The stream writePrefixes emits for a list of prefixes: the concatenation
\* of their encodings.
EncodeAll(ps) == IF Len(ps) = 0 THEN <<>> ELSE EncodedBytes(Head(ps)) \o EncodeAll(Tail(ps))

\* The greatest number of prefixes in an input stream.
MaxStream == 2

StreamPool ==
    { [addr |-> <<1, 2, 3, 0>>, bits |-> 31],
      [addr |-> <<1, 3, 0, 0>>, bits |-> 16],
      [addr |-> <<0, 0, 0, 0>>, bits |-> 0],
      [addr |-> <<1, 5, 5, 5>>, bits |-> 32],
      [addr |-> Zeros(16), bits |-> 0],
      [addr |-> <<32, 1, 13, 184, 171, 205, 18, 52, 0, 0, 0, 0, 0, 0, 0, 0>>, bits |-> 64],
      [addr |-> <<32, 3, 0, 193, 199, 46, 97, 0, 249, 33, 149, 166, 239, 57, 46, 200>>, bits |-> 127],
      [addr |-> <<32, 3, 0, 193, 199, 46, 97, 0, 249, 33, 149, 166, 239, 57, 30, 199>>, bits |-> 128],
      [addr |-> <<1, 2, 3, 1>>, bits |-> 24] }

SeqsUpTo(S, n) == UNION { [1..k -> S] : k \in 0..n }

\* What follows the encoded prefixes in the buffer: nothing, an invalid
\* header, or a truncated unit.
StreamTails == { <<>>, <<200>>, <<24, 1>> }

StreamInit ==
    /\ CodecIdle /\ MergeIdle /\ ParseIdle /\ MainIdle
    /\ spc = "loop"
    /\ src \in SeqsUpTo(StreamPool, MaxStream)
    /\ tail \in StreamTails
    /\ data = EncodeAll(src) \o tail
    /\ prefixes = <<>>
    /\ lastN = 0
    /\ rerr = "nil"

\* Mutant: the buffer is advanced by one byte too few.
ReadStepOffByOne ==
    /\ spc = "loop"
    /\ Len(data) > 0
    /\ LET r == ReadPrefixFromBytes(data) IN
        IF r.err # "nil"
        THEN /\ spc' = "error"
             /\ rerr' = r.err
             /\ prefixes' = <<>>
             /\ UNCHANGED <<data, lastN>>
        ELSE /\ prefixes' = Append(prefixes, r.prefix)
             /\ data' = Drop(data, r.n - 1)
             /\ lastN' = r.n
             /\ UNCHANGED <<spc, rerr>>
    /\ UNCHANGED <<src, tail>>
    /\ UNCHANGED <<codecVars, mergeVars, parseVars, mainVars>>

\* One iteration of `for len(data) > 0`.
ReadStep ==
    /\ spc = "loop"
    /\ Len(data) > 0
    /\ LET r == ReadPrefixFromBytes(data) IN
        IF r.err # "nil"
        THEN /\ spc' = "error"
             /\ rerr' = r.err
             /\ prefixes' = <<>>
             /\ UNCHANGED <<data, lastN>>
        ELSE /\ prefixes' = Append(prefixes, r.prefix)
             /\ data' = Drop(data, r.n)
             /\ lastN' = r.n
             /\ UNCHANGED <<spc, rerr>>
    /\ UNCHANGED <<src, tail>>
    /\ UNCHANGED <<codecVars, mergeVars, parseVars, mainVars>>

\* The loop condition fails: return prefixes, nil.
ReadDone ==
    /\ spc = "loop"
    /\ Len(data) = 0
    /\ spc' = "done"
    /\ UNCHANGED <<src, tail, data, prefixes, lastN, rerr>>
    /\ UNCHANGED <<codecVars, mergeVars, parseVars, mainVars>>

StreamNext == ReadStep \/ ReadDone

SpecStream == StreamInit /\ [][StreamNext]_vars

AllCanonical(ps) == \A i \in 1..Len(ps) : IsCanonical(ps[i])

\* C3: chained decoding. On the concatenation of the encodings of valid
\* canonical prefixes the loop never fails, every call consumes at least
\* one byte, the prefixes come back in the original order, and the loop
\* ends with an empty buffer having returned exactly the original list.
C3_ChainedDecode ==
    (tail = <<>> /\ AllCanonical(src)) =>
        /\ spc # "error" /\ rerr = "nil"
        /\ Len(prefixes) <= Len(src)
        /\ prefixes = Take(src, Len(prefixes))
        /\ (Len(prefixes) > 0 => lastN >= 1)
        /\ (spc = "loop" /\ Len(prefixes) < Len(src) => Len(data) > 0)
        /\ (spc = "done" => prefixes = src /\ data = <<>>)

\* A mixed IPv4 / IPv6 stream of two prefixes decoded to the end.
C3_Witness ==
    /\ spc = "done"
    /\ tail = <<>>
    /\ Len(src) = 2
    /\ Is4(src[1].addr) /\ ~Is4(src[2].addr)
    /\ AllCanonical(src)
    /\ prefixes = src

----------------------------------------------------------------------------
(* MergePrefixes: parser.go                                                *)

\* netipx.IPSetBuilder.AddPrefix on the builder's list of added ranges:
\* the range of the masked prefix is appended; an invalid prefix is
\* recorded as an error.
AddPrefix(in, errs, p) ==
    LET r == RangeOfPrefix(p)
    IN IF RangeIsValid(r) THEN [in |-> Append(in, r), errs |-> errs]
       ELSE [in |-> in, errs |-> errs + 1]

\* netipx.IPSetBuilder.IPSet: normalize, then return the set and the
\* accumulated errors.
BuilderIPSet(in, errs) ==
    [rr |-> MergeIPRanges(in), err |-> IF errs = 0 THEN "nil" ELSE "multiErr"]

RECURSIVE AddAll(_, _, _)
AddAll(in, errs, ps) ==
    IF Len(ps) = 0 THEN [in |-> in, errs |-> errs]
    ELSE LET b == AddPrefix(in, errs, Head(ps)) IN AddAll(b.in, b.errs, Tail(ps))

\* MergePrefixes(prefixes) -> (*netipx.IPSet, error), as one call.
MergePrefixes(ps) == LET b == AddAll(<<>>, 0, ps) IN BuilderIPSet(b.in, b.errs)

\* netipx.IPSet.Ranges and netipx.IPSet.Prefixes
SetRanges(rr) == rr

SetPrefixes(rr) == ConcatPrefixes(rr)

\* The greatest number of prefixes handed to MergePrefixes.
MaxMerge == 3

P4(a, b, c, d, l) == [addr |-> <<a, b, c, d>>, bits |-> l]

V6Test(lo, l) ==
    [addr |-> <<32, 3, 0, 193, 199, 46, 97, 0, 249, 33, 149, 166, 239, 57, 46, lo>>, bits |-> l]

MergePool ==
    { P4(192, 168, 1, 0, 25), P4(192, 168, 1, 128, 25), P4(192, 168, 1, 0, 24),
      P4(192, 168, 0, 0, 24), P4(1, 2, 3, 1, 24),
      P4(255, 255, 255, 255, 32), [addr |-> Zeros(16), bits |-> 128],
      V6Test(200, 127), V6Test(202, 128), NoPrefix }

MergeInit ==
    /\ CodecIdle /\ StreamIdle /\ ParseIdle /\ MainIdle
    /\ mpc = "adding"
    /\ input \in SeqsUpTo(MergePool, MaxMerge)
    /\ idx = 0
    /\ builderIn = <<>>
    /\ builderErrs = 0
    /\ ipset = <<>>
    /\ merr = "nil"

\* One iteration of `for _, prefix := range prefixes`.
AddPrefixStep ==
    /\ mpc = "adding"
    /\ idx < Len(input)
    /\ LET b == AddPrefix(builderIn, builderErrs, input[idx + 1])
       IN /\ builderIn' = b.in
          /\ builderErrs' = b.errs
    /\ idx' = idx + 1
    /\ UNCHANGED <<mpc, input, ipset, merr>>
    /\ UNCHANGED <<codecVars, streamVars, parseVars, mainVars>>

\* return builder.IPSet()
Finalize ==
    /\ mpc = "adding"
    /\ idx = Len(input)
    /\ LET s == BuilderIPSet(builderIn, builderErrs)
       IN /\ ipset' = s.rr
          /\ merr' = s.err
    /\ mpc' = "done"
    /\ UNCHANGED <<input, idx, builderIn, builderErrs>>
    /\ UNCHANGED <<codecVars, streamVars, parseVars, mainVars>>

MergeNext == AddPrefixStep \/ Finalize

SpecMerge == MergeInit /\ [][MergeNext]_vars

\* Every reordering of a sequence.
Reorderings(s) ==
    { [i \in 1..Len(s) |-> s[f[i]]] :
        f \in { g \in [1..Len(s) -> 1..Len(s)] : \A i, j \in 1..Len(s) : g[i] = g[j] => i = j } }

\* C4: merge order-independence. The set MergePrefixes returns, its range
\* view and its prefix view are the same for every permutation of the
\* input.
C4_OrderIndependent ==
    mpc = "done" =>
        \A q \in Reorderings(input) :
            LET m == MergePrefixes(q)
            IN /\ m.rr = ipset
               /\ m.err = merr
               /\ SetRanges(m.rr) = SetRanges(ipset)
               /\ SetPrefixes(m.rr) = SetPrefixes(ipset)

\* Scenario 3 in the order upper half, lower half: one range, one /24.
C4_Witness ==
    /\ mpc = "done"
    /\ input = <<P4(192, 168, 1, 128, 25), P4(192, 168, 1, 0, 25)>>
    /\ ipset = <<[from |-> <<192, 168, 1, 0>>, to |-> <<192, 168, 1, 255>>]>>
    /\ SetPrefixes(ipset) = <<P4(192, 168, 1, 0, 24)>>

\* to + 1 < from, within one family; an IPv4 range precedes every IPv6 range.
StrictGap(r1, r2) ==
    IF Len(r1.to) # Len(r2.from) THEN Len(r1.to) < Len(r2.from)
    ELSE /\ AddrLess(r1.to, r2.from)
         /\ AddrNext(r1.to) # r2.from

\* C5: Canonical Set invariant. After any sequence of insertions the ranges
\* of the set are valid, sorted ascending by from, and consecutive ranges
\* are separated by a strict gap: none overlap, none are adjacent.
C5_CanonicalSet ==
    mpc = "done" =>
        /\ \A i \in 1..Len(ipset) : RangeIsValid(ipset[i])
        /\ \A i \in 1..(Len(ipset) - 1) :
              /\ AddrLess(ipset[i].from, ipset[i + 1].from)
              /\ StrictGap(ipset[i], ipset[i + 1])

\* The two adjacent halves of 192.168.1.0/24 and a distant prefix: the
\* halves end up as a single range.
C5_Witness ==
    /\ mpc = "done"
    /\ input = <<P4(192, 168, 1, 0, 25), P4(255, 255, 255, 255, 32), P4(192, 168, 1, 128, 25)>>
    /\ ipset = << [from |-> <<192, 168, 1, 0>>, to |-> <<192, 168, 1, 255>>],
                  [from |-> Ones(4), to |-> Ones(4)] >>

----------------------------------------------------------------------------
(* ParseIPSubnets: parser.go                                               *)
(*                                                                         *)
(* A line is given by the branch of the switch it takes and by what        *)
(* netip.ParseAddr / netip.ParsePrefix make of its fields: an address is   *)
(* its bytes, and the empty sequence stands for text that does not parse.  *)

BlankLine == [kind |-> "blank", a |-> <<>>, b |-> <<>>, bits |-> 0]

CommentLine == [kind |-> "comment", a |-> <<>>, b |-> <<>>, bits |-> 0]

RangeLine(a, b) == [kind |-> "range", a |-> a, b |-> b, bits |-> 0]

CidrLine(a, bits) == [kind |-> "cidr", a |-> a, b |-> <<>>, bits |-> bits]

AddrLine(a) == [kind |-> "addr", a |-> a, b |-> <<>>, bits |-> 0]

\* netip.ParseAddr on a field: (Addr, error).
ParseAddr(f) == [ip |-> f, err |-> IF Len(f) = 0 THEN "ParseAddr" ELSE "nil"]

\* netip.ParsePrefix on "addr/bits": the host bits are kept as written.
ParsePrefix(f, bits) ==
    IF Len(f) = 0 \/ bits < 0 \/ bits > BitLen(f)
    THEN [prefix |-> NoPrefix, err |-> "ParsePrefix"]
    ELSE [prefix |-> PrefixFrom(f, bits), err |-> "nil"]

\* Mutant: the range is built with its endpoints swapped.
ParseLineSwapped(ns, line) ==
    IF line.kind \in {"blank", "comment"} THEN [nets |-> ns, err |-> "nil"]
    ELSE IF line.kind = "range" THEN
        LET startIp == ParseAddr(line.a)
            endIp == ParseAddr(line.b)
        IN IF startIp.err # "nil" THEN [nets |-> <<>>, err |-> startIp.err]
           ELSE IF endIp.err # "nil" THEN [nets |-> <<>>, err |-> endIp.err]
           ELSE [nets |-> AppendPrefixes(IPRangeFrom(endIp.ip, startIp.ip), ns), err |-> "nil"]
    ELSE IF line.kind = "cidr" THEN
        LET pp == ParsePrefix(line.a, line.bits)
        IN IF pp.err # "nil" THEN [nets |-> <<>>, err |-> pp.err]
           ELSE [nets |-> Append(ns, pp.prefix), err |-> "nil"]
    ELSE
        LET ip == ParseAddr(line.a)
        IN IF ip.err # "nil" THEN [nets |-> <<>>, err |-> ip.err]
           ELSE [nets |-> Append(ns, PrefixFrom(ip.ip, BitLen(ip.ip))), err |-> "nil"]

\* The body of `for scanner.Scan()` for one line: the new nets, or the
\* error ParseIPSubnets returns.
\* In the range branch the `else` of `if len(s) > 1` is never taken: a
\* field that contains "-" and is one character long is "-", whose first
\* part fails to parse before the test is reached.
ParseLine(ns, line) ==
    IF line.kind \in {"blank", "comment"} THEN [nets |-> ns, err |-> "nil"]
    ELSE IF line.kind = "range" THEN
        LET startIp == ParseAddr(line.a)
            endIp == ParseAddr(line.b)
        IN IF startIp.err # "nil" THEN [nets |-> <<>>, err |-> startIp.err]
           ELSE IF endIp.err # "nil" THEN [nets |-> <<>>, err |-> endIp.err]
           ELSE [nets |-> AppendPrefixes(IPRangeFrom(startIp.ip, endIp.ip), ns), err |-> "nil"]
    ELSE IF line.kind = "cidr" THEN
        LET pp == ParsePrefix(line.a, line.bits)
        IN IF pp.err # "nil" THEN [nets |-> <<>>, err |-> pp.err]
           ELSE [nets |-> Append(ns, pp.prefix), err |-> "nil"]
    ELSE
        LET ip == ParseAddr(line.a)
        IN IF ip.err # "nil" THEN [nets |-> <<>>, err |-> ip.err]
           ELSE [nets |-> Append(ns, PrefixFrom(ip.ip, BitLen(ip.ip))), err |-> "nil"]

RECURSIVE ParseLines(_, _)
ParseLines(ns, ls) ==
    IF Len(ls) = 0 THEN [nets |-> ns, err |-> "nil"]
    ELSE LET r == ParseLine(ns, Head(ls))
         IN IF r.err # "nil" THEN r ELSE ParseLines(r.nets, Tail(ls))

\* ParseIPSubnets(r) -> (nets, err) as one call; scanErr is scanner.Err().
ParseIPSubnets(ls, scanErr) ==
    LET r == ParseLines(<<>>, ls)
    IN IF r.err # "nil" THEN r
       ELSE IF scanErr # "nil" THEN [nets |-> <<>>, err |-> scanErr]
       ELSE r

\* The greatest number of lines of a text input.
MaxLines == 2

A4(a, b, c, d) == <<a, b, c, d>>

V6Top(hi, lo) == Ones(14) \o <<hi, lo>>

V6Low(hi, lo) == Zeros(14) \o <<hi, lo>>

ValidRangeLines ==
    { RangeLine(A4(0, 0, 0, 0), A4(255, 255, 255, 255)),
      RangeLine(A4(0, 0, 0, 0), A4(0, 0, 0, 0)),
      RangeLine(A4(255, 255, 255, 255), A4(255, 255, 255, 255)),
      RangeLine(A4(0, 0, 0, 1), A4(255, 255, 255, 254)),
      RangeLine(A4(1, 4, 0, 0), A4(1, 4, 1, 255)),
      RangeLine(A4(1, 2, 3, 1), A4(1, 2, 3, 6)),
      RangeLine(A4(1, 3, 255, 250), A4(1, 4, 0, 5)),
      RangeLine(A4(255, 255, 255, 0), A4(255, 255, 255, 255)),
      RangeLine(A4(200, 0, 0, 1), A4(255, 255, 255, 255)),
      RangeLine(Zeros(16), Ones(16)),
      RangeLine(V6Test(200, 0).addr, V6Test(201, 0).addr),
      RangeLine(V6Top(255, 254), V6Top(255, 255)),
      RangeLine(V6Top(250, 1), V6Top(255, 255)),
      RangeLine(V6Low(0, 1), V6Low(255, 254)) }

\* Both fields parse, but the range is not one: from > to, or the
\* families differ.
InvalidRangeLines ==
    { RangeLine(A4(1, 2, 3, 9), A4(1, 2, 3, 1)),
      RangeLine(A4(1, 2, 3, 4), V6Low(0, 1)),
      RangeLine(V6Low(0, 1), A4(1, 2, 3, 4)) }

OtherLines ==
    { RangeLine(<<>>, A4(1, 2, 3, 4)), RangeLine(A4(1, 2, 3, 4), <<>>),
      AddrLine(A4(1, 5, 5, 5)), AddrLine(V6Test(199, 0).addr), AddrLine(<<>>),
      CidrLine(A4(1, 2, 3, 4), 24), CidrLine(A4(1, 2, 3, 4), 33),
      BlankLine, CommentLine }

LinePool == ValidRangeLines \cup InvalidRangeLines \cup OtherLines

ScanErrors == {"nil", "read error"}

ParseInit ==
    /\ CodecIdle /\ StreamIdle /\ MergeIdle /\ MainIdle
    /\ ppc = "scan"
    /\ lines \in SeqsUpTo(LinePool, MaxLines)
    /\ li = 0
    /\ nets = <<>>
    /\ mark = 0
    /\ perr = "nil"

\* scanner.Scan() returns a line and the loop body runs on it.
ScanLine ==
    /\ ppc = "scan"
    /\ li < Len(lines)
    /\ LET r == ParseLine(nets, lines[li + 1])
       IN /\ nets' = r.nets
          /\ perr' = r.err
          /\ ppc' = IF r.err # "nil" THEN "error" ELSE "scan"
    /\ mark' = Len(nets)
    /\ li' = li + 1
    /\ UNCHANGED lines
    /\ UNCHANGED <<codecVars, streamVars, mergeVars, mainVars>>

\* scanner.Scan() returns false: scanner.Err() decides the result.
ScanEnd ==
    /\ ppc = "scan"
    /\ li = Len(lines)
    /\ \E e \in ScanErrors :
          /\ perr' = e
          /\ ppc' = IF e # "nil" THEN "error" ELSE "done"
          /\ nets' = IF e # "nil" THEN <<>> ELSE nets
    /\ UNCHANGED <<lines, li, mark>>
    /\ UNCHANGED <<codecVars, streamVars, mergeVars, mainVars>>

ParseNext == ScanLine \/ ScanEnd

SpecParse == ParseInit /\ [][ParseNext]_vars

\* The line just scanned is a range entry whose two addresses parse.
ScannedRange == li > 0 /\ lines[li].kind = "range" /\ Len(lines[li].a) > 0 /\ Len(lines[li].b) > 0

\* from <= to in one family.
WellFormedRange(a, b) == Len(a) = Len(b) /\ (a = b \/ AddrLess(a, b))

\* ps covers from..to exactly: it starts at from, every prefix has its host
\* bits cleared, each prefix starts right after the last address of the
\* one before it (ascending, disjoint, no hole), and the last ends at to.
CoversExactly(ps, from, to) ==
    /\ Len(ps) >= 1
    /\ ps[1].addr = from
    /\ \A i \in 1..Len(ps) : IsCanonical(ps[i]) /\ Len(ps[i].addr) = Len(from)
    /\ \A i \in 1..(Len(ps) - 1) :
          /\ AddrNext(PrefixLastIP(ps[i])) = ps[i + 1].addr
          /\ AddrLess(ps[i].addr, ps[i + 1].addr)
    /\ PrefixLastIP(ps[Len(ps)]) = to

\* C6: range decomposition covers exactly. For every range entry with
\* from <= to, also one ending at the last address of its family, the
\* prefixes appended are ascending, pairwise disjoint, have their host bits
\* cleared, and their union is exactly from..to.
C6_DecompositionCovers ==
    (ScannedRange /\ WellFormedRange(lines[li].a, lines[li].b) /\ perr # "read error") =>
        /\ perr = "nil" /\ ppc # "error"
        /\ mark <= Len(nets)
        /\ CoversExactly(Drop(nets, mark), lines[li].a, lines[li].b)

\* A range that ends at 255.255.255.255 from an unaligned start, scanned
\* after another entry.
C6_Witness ==
    /\ li = 2
    /\ mark = 1
    /\ lines[2] = RangeLine(A4(200, 0, 0, 1), A4(255, 255, 255, 255))
    /\ Len(nets) > 3
    /\ PrefixLastIP(nets[Len(nets)]) = Ones(4)

\* C8: a range entry whose endpoints are of different families, or whose
\* first address is greater than its second, makes ParseIPSubnets return an
\* error instead of a prefix list.
C8_InvalidRangeRejected ==
    (ScannedRange /\ ~WellFormedRange(lines[li].a, lines[li].b)) =>
        ppc = "error" /\ perr # "nil"

----------------------------------------------------------------------------
(* The command: readPrefixes, writePrefixes and main                       *)

OutFormatSubnetsIPs == 1

OutFormatRangesIPs == 2

OutFormatSubnets == 3

OutFormatRanges == 4

RECURSIVE DecodeAll(_, _)
\* The binary branch of readPrefixes as one call: decode until the buffer
\* is empty, or return the first error and no prefixes.
DecodeAll(buf, acc) ==
    IF Len(buf) = 0 THEN [prefixes |-> acc, err |-> "nil"]
    ELSE LET r == ReadPrefixFromBytes(buf)
         IN IF r.err # "nil" THEN [prefixes |-> <<>>, err |-> r.err]
            ELSE DecodeAll(Drop(buf, r.n), Append(acc, r.prefix))

\* readPrefixes(opts) -> (prefixes, err). env is what the file system
\* gives: whether os.Open and gzip.NewReader succeed, the error of
\* io.ReadAll or of the scanner, and the content of the file.
ReadPrefixes(o, env) ==
    IF ~env.open THEN [prefixes |-> <<>>, err |-> "open"]
    ELSE IF o.gzipIn /\ ~env.gz THEN [prefixes |-> <<>>, err |-> "gzip: invalid header"]
    ELSE IF o.binIn THEN
        IF env.rd # "nil" THEN [prefixes |-> <<>>, err |-> env.rd]
        ELSE DecodeAll(env.bytes, <<>>)
    ELSE LET r == ParseIPSubnets(env.lines, env.rd)
         IN [prefixes |-> r.nets, err |-> r.err]

\* One w.Write call of writePrefixes: what is written.
Item(t, a, b, bits) == [t |-> t, a |-> a, b |-> b, bits |-> bits]

SepItem == Item("sep", <<>>, <<>>, 0)

PrefixText(p) == Item("prefix", p.addr, <<>>, p.bits)

IPText(a) == Item("ip", a, <<>>, 0)

RangeText(r) == Item("range", r.from, r.to, 0)

RECURSIVE BinaryWrites(_)
\* `for _, p := range ipset.Prefixes()`: WriteEncoded each prefix, return
\* at the first error.
BinaryWrites(ps) ==
    IF Len(ps) = 0 THEN [items |-> <<>>, err |-> "nil"]
    ELSE LET e == EncodePrefix(Head(ps))
         IN IF e.err # "nil" THEN [items |-> <<>>, err |-> e.err]
            ELSE LET rest == BinaryWrites(Tail(ps))
                 IN [items |-> <<Item("bytes", Take(e.b, e.n), <<>>, 0)>> \o rest.items,
                     err |-> rest.err]

RECURSIVE Joined(_)
\* `if i > 0 { w.Write(sep) }` before each item.
Joined(xs) ==
    IF Len(xs) <= 1 THEN xs ELSE <<xs[1], SepItem>> \o Joined(Tail(xs))

\* The w.Write calls of writePrefixes, and the error it returns when none
\* of them fails.
WritePayloads(o, rr) ==
    LET ps == SetPrefixes(rr)
        rs == SetRanges(rr)
    IN IF o.binOut THEN BinaryWrites(ps)
       ELSE IF o.formatOut = OutFormatSubnets THEN
           [items |-> Joined([i \in 1..Len(ps) |-> PrefixText(ps[i])]), err |-> "nil"]
       ELSE IF o.formatOut = OutFormatSubnetsIPs THEN
           [items |-> Joined([i \in 1..Len(ps) |->
                          IF BitLen(ps[i].addr) = ps[i].bits THEN IPText(ps[i].addr)
                          ELSE PrefixText(ps[i])]),
            err |-> "nil"]
       ELSE IF o.formatOut = OutFormatRanges THEN
           [items |-> Joined([i \in 1..Len(rs) |-> RangeText(rs[i])]), err |-> "nil"]
       ELSE IF o.formatOut = OutFormatRangesIPs THEN
           [items |-> Joined([i \in 1..Len(rs) |->
                          IF rs[i].from = rs[i].to THEN IPText(rs[i].from)
                          ELSE RangeText(rs[i])]),
            err |-> "nil"]
       ELSE [items |-> <<>>, err |-> "unknown output format"]

\* writePrefixes(opts, ipset) -> error, with its effect on the output file.
\* env: whether os.Create succeeds, whether the first write of the gzip
\* writer (which puts the gzip header into the file at once) succeeds, and
\* whether the deferred bufw.Flush / gz.Close / f.Close succeed.  The
\* buffered writer holds 32 KiB, so with the outputs considered here every
\* other w.Write only fills the buffer.  The deferred calls' errors are
\* dropped: they do not reach the returned error.
WritePrefixes(o, rr, env) ==
    IF ~env.create
    THEN [created |-> FALSE, data |-> <<>>, err |-> "create", io |-> {"create"}]
    ELSE LET w == WritePayloads(o, rr)
             flushes == o.gzipOut \/ Len(w.items) > 0
         IN IF o.gzipOut /\ Len(w.items) > 0 /\ ~env.header
            THEN [created |-> TRUE, data |-> <<>>, err |-> "write", io |-> {"write"}]
            ELSE [created |-> TRUE,
                  data |-> IF env.final \/ ~flushes THEN w.items ELSE <<>>,
                  err |-> w.err,
                  io |-> (IF w.err # "nil" THEN {"write"} ELSE {})
                         \cup (IF flushes /\ ~env.final THEN {"flush"} ELSE {})]

\* The greatest number of entries (prefixes, lines) of an input file.
MaxInput == 2

MainPrefixPool ==
    { P4(192, 168, 1, 0, 25), P4(192, 168, 1, 128, 25), P4(1, 5, 5, 5, 32), V6Test(200, 127) }

MainLinePool ==
    { RangeLine(A4(1, 4, 0, 0), A4(1, 4, 1, 255)), RangeLine(A4(1, 2, 3, 9), A4(1, 2, 3, 1)),
      AddrLine(A4(1, 5, 5, 5)), CidrLine(A4(1, 2, 3, 4), 24), AddrLine(<<>>) }

BinFiles == { EncodeAll(ps) \o t : ps \in SeqsUpTo(MainPrefixPool, MaxInput), t \in StreamTails }

TextFiles == SeqsUpTo(MainLinePool, MaxInput)

ReadEnv(open, gz, rd, bytes, ls) ==
    [open |-> open, gz |-> gz, rd |-> rd, bytes |-> bytes, lines |-> ls]

\* What the input side of the file system can do for a run with options o.
ReadEnvs(o) ==
    { ReadEnv(FALSE, TRUE, "nil", <<>>, <<>>),
      ReadEnv(TRUE, FALSE, "nil", <<>>, <<>>),
      ReadEnv(TRUE, TRUE, "read error", <<>>, <<>>) }
    \cup (IF o.binIn THEN { ReadEnv(TRUE, TRUE, "nil", b, <<>>) : b \in BinFiles }
          ELSE { ReadEnv(TRUE, TRUE, "nil", <<>>, l) : l \in TextFiles })

WriteEnvs == [create : BOOLEAN, header : BOOLEAN, final : BOOLEAN]

ArgLists == { <<>>, <<"">>, <<"out">> }

OptsSet ==
    [showHelp : BOOLEAN, args : ArgLists, inputFilepath : {"", "in"}, binIn : BOOLEAN,
     gzipIn : BOOLEAN, binOut : BOOLEAN, gzipOut : BOOLEAN, formatOut : 1..5]

MainInit ==
    /\ CodecIdle /\ StreamIdle /\ MergeIdle /\ ParseIdle
    /\ pc = "start"
    /\ opts \in OptsSet
    /\ exitCode = -1
    /\ outFile = "absent"
    /\ fileData = <<>>
    /\ readOk = FALSE
    /\ mergeOk = FALSE
    /\ failed = {}

\* flag.Parse and the checks of main before any file is touched.
ParseArgs ==
    /\ pc = "start"
    /\ IF opts.showHelp THEN pc' = "exit" /\ exitCode' = 0
       ELSE IF Len(opts.args) < 1 THEN pc' = "exit" /\ exitCode' = 2
       ELSE IF opts.inputFilepath = "" \/ opts.args[1] = "" THEN pc' = "exit" /\ exitCode' = 2
       ELSE pc' = "read" /\ exitCode' = exitCode
    /\ UNCHANGED <<opts, outFile, fileData, readOk, mergeOk, failed>>
    /\ UNCHANGED <<codecVars, streamVars, mergeVars, parseVars>>

\* Mutant: the output file is created before the input is read.
ReadInputCreatesFirst ==
    /\ pc = "read"
    /\ \E env \in ReadEnvs(opts) :
          LET r == ReadPrefixes(opts, env)
          IN IF r.err # "nil"
             THEN /\ pc' = "exit" /\ exitCode' = 1
                  /\ failed' = failed \cup {"read"}
                  /\ UNCHANGED <<prefixes, readOk>>
             ELSE /\ pc' = "merge"
                  /\ prefixes' = r.prefixes
                  /\ readOk' = TRUE
                  /\ UNCHANGED <<exitCode, failed>>
    /\ outFile' = "created"
    /\ UNCHANGED <<opts, fileData, mergeOk>>
    /\ UNCHANGED <<spc, src, tail, data, lastN, rerr>>
    /\ UNCHANGED <<codecVars, mergeVars, parseVars>>

\* prefixes, err := readPrefixes(&opts); os.Exit(1) on error.
ReadInput ==
    /\ pc = "read"
    /\ \E env \in ReadEnvs(opts) :
          LET r == ReadPrefixes(opts, env)
          IN IF r.err # "nil"
             THEN /\ pc' = "exit" /\ exitCode' = 1
                  /\ failed' = failed \cup {"read"}
                  /\ UNCHANGED <<prefixes, readOk>>
             ELSE /\ pc' = "merge"
                  /\ prefixes' = r.prefixes
                  /\ readOk' = TRUE
                  /\ UNCHANGED <<exitCode, failed>>
    /\ UNCHANGED <<opts, outFile, fileData, mergeOk>>
    /\ UNCHANGED <<spc, src, tail, data, lastN, rerr>>
    /\ UNCHANGED <<codecVars, mergeVars, parseVars>>

\* ipset, err := ipbin.MergePrefixes(prefixes); os.Exit(1) on error.
Merge ==
    /\ pc = "merge"
    /\ LET m == MergePrefixes(prefixes)
       IN IF m.err # "nil"
          THEN /\ pc' = "exit" /\ exitCode' = 1
               /\ failed' = failed \cup {"merge"}
               /\ UNCHANGED <<ipset, mergeOk>>
          ELSE /\ pc' = "write"
               /\ ipset' = m.rr
               /\ mergeOk' = TRUE
               /\ UNCHANGED <<exitCode, failed>>
    /\ UNCHANGED <<opts, outFile, fileData, readOk>>
    /\ UNCHANGED <<mpc, input, idx, builderIn, builderErrs, merr>>
    /\ UNCHANGED <<codecVars, streamVars, parseVars>>

\* writePrefixes(&opts, ipset); os.Exit(1) on error, else the process ends
\* with status 0.
Write ==
    /\ pc = "write"
    /\ \E env \in WriteEnvs :
          LET w == WritePrefixes(opts, ipset, env)
          IN /\ outFile' = IF w.created THEN "created" ELSE outFile
             /\ fileData' = w.data
             /\ failed' = failed \cup w.io
             /\ exitCode' = IF w.err # "nil" THEN 1 ELSE 0
    /\ pc' = "exit"
    /\ UNCHANGED <<opts, readOk, mergeOk>>
    /\ UNCHANGED <<mpc, input, idx, builderIn, builderErrs, merr, ipset>>
    /\ UNCHANGED <<codecVars, streamVars, parseVars>>

MainNext == ParseArgs \/ ReadInput \/ Merge \/ Write

SpecMain == MainInit /\ [][MainNext]_vars

\* C7: no partial output. The output file exists or holds data only once
\* reading/parsing and merging have both succeeded; after a failed read,
\* parse, decode or merge it is never created or written.
C7_NoPartialOutput ==
    /\ (outFile # "absent" \/ fileData # <<>>) => (readOk /\ mergeOk /\ pc = "exit")
    /\ (failed \cap {"read", "merge"} # {}) => (outFile = "absent" /\ fileData = <<>>)
    /\ (pc \in {"start", "read", "merge", "write"}) => (outFile = "absent" /\ fileData = <<>>)

\* A run that read two prefixes, merged them and then wrote the output.
C7_Witness ==
    /\ pc = "exit"
    /\ exitCode = 0
    /\ readOk /\ mergeOk
    /\ Len(prefixes) = 2
    /\ outFile = "created"
    /\ Len(fileData) > 0

\* C9: exit codes. 2 when the output argument or the input path is
\* missing; 1 whenever reading, parsing, merging or writing the output
\* fails, flushing and closing the writer included; 0 only when the
\* complete output was written (or help was asked for).
C9_ExitCodes ==
    pc = "exit" =>
        /\ (~opts.showHelp /\ (Len(opts.args) < 1 \/ opts.inputFilepath = "")) => exitCode = 2
        /\ (failed # {}) => exitCode = 1
        /\ (exitCode = 0 /\ ~opts.showHelp) =>
              /\ outFile = "created"
              /\ fileData = WritePayloads(opts, ipset).items

====
